---- MODULE Spec2Model ----
(***************************************************************************)
(* Model of KalaHeaders::Convert_WAV (src/audio/wav_to_pcm.hpp): one call  *)
(* of the decoder is a run of six steps (pre-read checks, open and size,   *)
(* read, header parse, data-chunk scan, send data out) over a file system  *)
(* object, an I/O environment and a heap chosen in the initial state.      *)
(* Bytes are the integers 0..255; size_t is modelled as on an LP64 build,  *)
(* so dataOffset + dataSize never wraps; 32-bit fields of the model stay   *)
(* below 2^31.                                                             *)
(***************************************************************************)
EXTENDS Integers, Sequences, FiniteSets, TLC

\* ---------------------------------------------------------------- bounds
\* Largest number of payload bytes that follow the data-chunk header.
MaxPayload == 3
\* Number of calls of Convert_WAV made on the same output slot.
MaxCalls == 2

\* ------------------------------------------------------- program constants
EXPECTED_DATA_POS_START == 12

ALLOWED_SAMPLE_RATES == {44100, 48000, 96000, 192000}
ALLOWED_CHANNELS == {1, 2}
ALLOWED_BPS == {16, 24, 32}

\* static_cast<size_t>(-1): what a failed tellg() becomes (a stand-in value
\* larger than every file and every heap of the model).
SIZE_MAX == 2147483647

\* The 4-byte literals the decoder compares with.
RIFF == <<82, 73, 70, 70>>
WAVE == <<87, 65, 86, 69>>
FMT == <<102, 109, 116, 32>>
DATA == <<100, 97, 116, 97>>

RESULT_SUCCESS == "RESULT_SUCCESS"
RESULT_FILE_NOT_FOUND == "RESULT_FILE_NOT_FOUND"
RESULT_INVALID_EXTENSION == "RESULT_INVALID_EXTENSION"
RESULT_UNAUTHORIZED_READ == "RESULT_UNAUTHORIZED_READ"
RESULT_FILE_LOCKED == "RESULT_FILE_LOCKED"
RESULT_UNKNOWN_READ_ERROR == "RESULT_UNKNOWN_READ_ERROR"
RESULT_FILE_EMPTY == "RESULT_FILE_EMPTY"
RESULT_UNSUPPORTED_FILE_SIZE == "RESULT_UNSUPPORTED_FILE_SIZE"
RESULT_INVALID_RIFF_MAGIC == "RESULT_INVALID_RIFF_MAGIC"
RESULT_INVALID_WAVE_MAGIC == "RESULT_INVALID_WAVE_MAGIC"
RESULT_INVALID_FMT_CHUNK == "RESULT_INVALID_FMT_CHUNK"
RESULT_INVALID_FORMAT_TYPE == "RESULT_INVALID_FORMAT_TYPE"
RESULT_UNSUPPORTED_WAV_FORMAT == "RESULT_UNSUPPORTED_WAV_FORMAT"
RESULT_UNSUPPORTED_CHANNELS == "RESULT_UNSUPPORTED_CHANNELS"
RESULT_UNSUPPORTED_SAMPLE_RATE == "RESULT_UNSUPPORTED_SAMPLE_RATE"
RESULT_UNSUPPORTED_BITS_PER_SAMPLE == "RESULT_UNSUPPORTED_BITS_PER_SAMPLE"
RESULT_MISSING_DATA_CHUNK == "RESULT_MISSING_DATA_CHUNK"

ConvertResult_WAV ==
    { RESULT_SUCCESS, RESULT_FILE_NOT_FOUND, RESULT_INVALID_EXTENSION,
      RESULT_UNAUTHORIZED_READ, RESULT_FILE_LOCKED, RESULT_UNKNOWN_READ_ERROR,
      RESULT_FILE_EMPTY, RESULT_UNSUPPORTED_FILE_SIZE, RESULT_INVALID_RIFF_MAGIC,
      RESULT_INVALID_WAVE_MAGIC, RESULT_INVALID_FMT_CHUNK,
      RESULT_INVALID_FORMAT_TYPE, RESULT_UNSUPPORTED_WAV_FORMAT,
      RESULT_UNSUPPORTED_CHANNELS, RESULT_UNSUPPORTED_SAMPLE_RATE,
      RESULT_UNSUPPORTED_BITS_PER_SAMPLE, RESULT_MISSING_DATA_CHUNK }

\* ------------------------------------------------------------ the inputs
\* Little-endian encodings, used to write the files the decoder is given.
LE16(v) == <<v % 256, v \div 256>>
LE32(v) == <<v % 256, (v \div 256) % 256, (v \div 65536) % 256, v \div 16777216>>

Zeros(n) == [k \in 1..n |-> 0]

\* A file laid out as the WAV core layout: 12 bytes of RIFF header, the 24
\* bytes of the fmt chunk, then pad, a chunk tag, a declared size, payload.
BuildFile(p) ==
    p.riff \o LE32(36 + Len(p.payload)) \o p.wave
      \o p.fmt \o LE32(16) \o LE16(p.af) \o LE16(p.ch) \o LE32(p.rate)
      \o p.byteRate \o LE16(4) \o LE16(p.bps)
      \o p.pad \o p.tag \o LE32(p.declared) \o p.payload

BaseParams ==
    [ riff |-> RIFF, wave |-> WAVE, fmt |-> FMT, af |-> 1, ch |-> 2,
      rate |-> 44100, byteRate |-> LE32(176400), bps |-> 16, pad |-> <<>>,
      tag |-> DATA, declared |-> 2, payload |-> <<0, 100>> ]

\* Every combination of good and bad magic and format fields, with and
\* without a data chunk behind them.
HeaderFiles ==
    { BuildFile([BaseParams EXCEPT !.riff = r, !.wave = w, !.fmt = f, !.af = a,
                                   !.ch = c, !.rate = s, !.bps = b, !.tag = tg]) :
        tg \in {DATA, <<76, 73, 83, 84>>},
        r \in {RIFF, <<82, 73, 70, 88>>}, w \in {WAVE, <<87, 65, 86, 32>>},
        f \in {FMT, <<102, 109, 116, 0>>}, a \in {1, 3},
        c \in {1, 2, 3, 257}, s \in {44100, 48000, 96000, 192000, 22050},
        b \in {16, 24, 32, 8, 272} }

\* Payloads of 0..MaxPayload bytes, and one that holds the literal 'data'.
Payloads ==
    UNION { [1..n -> {0, 100}] : n \in 0..MaxPayload }
      \cup { DATA \o LE32(1) \o <<7, 9>> }

\* Declared data sizes: around the real payload length, and 1 GiB.
DeclaredSizes == 0..(MaxPayload + 1) \cup {1073741824}

\* A valid header followed by every shape of the data chunk.
TailFiles ==
    { BuildFile([BaseParams EXCEPT !.byteRate = br, !.pad = pd, !.tag = tg,
                                   !.declared = d, !.payload = pl]) :
        br \in {LE32(176400), DATA}, pd \in {<<>>, <<0, 0>>},
        tg \in {DATA, <<76, 73, 83, 84>>}, d \in DeclaredSizes, pl \in Payloads }

\* Every prefix of a few files: the lengths 0, 1, .., 12, 13, .., 43, 44, ..
TruncFiles ==
    LET whole == { BuildFile(BaseParams),
                   BuildFile([BaseParams EXCEPT !.riff = <<82, 73, 70, 88>>]),
                   BuildFile([BaseParams EXCEPT !.rate = 22050, !.ch = 3]),
                   RIFF \o LE32(20) \o WAVE \o FMT \o DATA
                     \o <<1, 0, 2, 0>> \o LE32(44100) }
    IN  UNION { { SubSeq(f, 1, n) : n \in 0..Len(f) } : f \in whole }

\* What lies in memory behind a buffer shorter than the header: zeros, 0x7F
\* bytes, or the image of a header a previous buffer left there.
Ghosts ==
    { Zeros(36), [k \in 1..36 |-> 127], SubSeq(BuildFile(BaseParams), 1, 36) }

\* The largest single allocation the heap grants.  Every file of the model
\* fits; a declared data size need not.
HeapLimits == {16777216, 2000000000}

BaseInput ==
    [ file |-> BuildFile(BaseParams), kind |-> "regular", ext |-> ".wav",
      canRead |-> TRUE, fsThrow |-> "none", ioFault |-> "none",
      heapLimit |-> 16777216, ghost |-> Zeros(36) ]

Inputs ==
    { [BaseInput EXCEPT !.file = f] : f \in HeaderFiles }
      \cup { [BaseInput EXCEPT !.file = f, !.heapLimit = h] :
               f \in TailFiles, h \in HeapLimits }
      \cup { [BaseInput EXCEPT !.file = f, !.ghost = g] :
               f \in TruncFiles, g \in Ghosts }
      \cup { [BaseInput EXCEPT !.kind = k, !.ext = e, !.canRead = c, !.fsThrow = t] :
               k \in {"missing", "directory", "regular"},
               e \in {".wav", ".WAV", ".txt", ""},
               c \in BOOLEAN,
               t \in {"none", "exists", "is_regular_file", "status"} }
      \cup { [BaseInput EXCEPT !.file = f, !.ioFault = io] :
               f \in { BuildFile(BaseParams), SubSeq(BuildFile(BaseParams), 1, 5),
                       BuildFile([BaseParams EXCEPT !.riff = <<82, 73, 70, 88>>]) },
               io \in {"open_EBUSY", "open_ETXTBSY", "open_EIO", "open_errno0",
                       "tellg_fail", "short_read"} }

\* ------------------------------------------------------------- the state
VARIABLES
    file,         \* the bytes of the file inFile names
    kind,         \* what inFile resolves to: missing, directory, regular
    ext,          \* inFile.extension(), "" when it has none
    canRead,      \* some read permission bit is set
    fsThrow,      \* the filesystem query that throws filesystem_error, if any
    ioFault,      \* the I/O fault of this environment, if any
    heapLimit,    \* the largest allocation the heap grants
    ghost,        \* the memory behind a short buffer
    pc,           \* where the call is
    calls,        \* calls made so far
    in,           \* the ifstream: none, open, closed
    opened,       \* handles opened by the current call
    fileSize,     \* local fileSize
    rawData,      \* local rawData
    reads,        \* indices of rawData the call has read
    channels,     \* local channels (u16)
    correctSampleRate, \* local correctSampleRate (u32)
    bitsPerSample,     \* local bitsPerSample (u16)
    dataOffset,   \* local dataOffset
    dataSize,     \* local dataSize
    dataEnd,      \* local dataEnd
    result,       \* the returned ConvertResult_WAV, "" before the return
    outData,      \* the caller's PCMData_WAV slot
    outBefore,    \* the value of outData when the current call began
    outWritten    \* whether the current call assigned outData

env == <<file, kind, ext, canRead, fsThrow, ioFault, heapLimit, ghost>>
locals == <<fileSize, rawData, reads, channels, correctSampleRate,
            bitsPerSample, dataOffset, dataSize, dataEnd>>
vars == <<env, pc, calls, in, opened, locals, result, outData, outBefore, outWritten>>

\* A PCMData_WAV the caller filled earlier.
EarlierData ==
    [pcmData |-> <<255>>, sampleRate |-> 8000, bitsPerSample |-> 8, channels |-> 6]

Init ==
    /\ \E i \in Inputs :
         /\ file = i.file
         /\ kind = i.kind
         /\ ext = i.ext
         /\ canRead = i.canRead
         /\ fsThrow = i.fsThrow
         /\ ioFault = i.ioFault
         /\ heapLimit = i.heapLimit
         /\ ghost = i.ghost
    /\ pc = "idle"
    /\ calls = 0
    /\ in = "none"
    /\ opened = 0
    /\ fileSize = 0
    /\ rawData = <<>>
    /\ reads = {}
    /\ channels = 0
    /\ correctSampleRate = 0
    /\ bitsPerSample = 0
    /\ dataOffset = 0
    /\ dataSize = 0
    /\ dataEnd = 0
    /\ result = ""
    /\ outData = EarlierData
    /\ outBefore = EarlierData
    /\ outWritten = FALSE

\* ------------------------------------------------------ pre-read checks
\* Lines 231-251: "throw" when a filesystem query throws (outside the try
\* block), a result when a check fails, "pass" otherwise.
PreReadOutcome(k, e, cr, t) ==
    IF t = "exists" THEN "throw"
    ELSE IF k = "missing" THEN RESULT_FILE_NOT_FOUND
    ELSE IF t = "is_regular_file" THEN "throw"
    ELSE IF k # "regular" \/ e = "" \/ e # ".wav" THEN RESULT_INVALID_EXTENSION
    ELSE IF t = "status" THEN "throw"
    ELSE IF ~cr THEN RESULT_UNAUTHORIZED_READ
    ELSE "pass"

\* Return that leaves the stream as it is (a handle that is not scoped).
Return_Leak(code) ==
    /\ result' = code
    /\ pc' = "done"
    /\ UNCHANGED in

\* return <code>: leaving the try block destroys the ifstream.
Return(code) ==
    /\ result' = code
    /\ pc' = "done"
    /\ in' = IF in = "open" THEN "closed" ELSE in

PreReadChecks ==
    /\ pc \in {"idle", "done"}
    /\ calls < MaxCalls
    /\ calls' = calls + 1
    /\ outBefore' = outData
    /\ outWritten' = FALSE
    /\ opened' = 0
    /\ fileSize' = 0
    /\ rawData' = <<>>
    /\ reads' = {}
    /\ channels' = 0
    /\ correctSampleRate' = 0
    /\ bitsPerSample' = 0
    /\ dataOffset' = 0
    /\ dataSize' = 0
    /\ dataEnd' = 0
    /\ in' = "none"
    /\ LET o == PreReadOutcome(kind, ext, canRead, fsThrow)
       IN  /\ pc' = IF o = "throw" THEN "threw" ELSE IF o = "pass" THEN "try" ELSE "done"
           /\ result' = IF o \in {"throw", "pass"} THEN "" ELSE o
    /\ UNCHANGED <<env, outData>>

\* ---------------------------------------------------------- open and size
\* Line 260-261: whether in.fail() holds after the constructor, and errno.
OpenFailed(io) == io \in {"open_EBUSY", "open_ETXTBSY", "open_EIO", "open_errno0"}
Errno(io) ==
    IF io = "open_EBUSY" THEN "EBUSY"
    ELSE IF io = "open_ETXTBSY" THEN "ETXTBSY"
    ELSE IF io = "open_EIO" THEN "EIO"
    ELSE "0"

\* Lines 261-270.
OpenOutcome(io) ==
    IF OpenFailed(io) /\ Errno(io) # "0"
    THEN IF Errno(io) = "EBUSY" \/ Errno(io) = "ETXTBSY"
         THEN RESULT_FILE_LOCKED
         ELSE RESULT_UNKNOWN_READ_ERROR
    ELSE "pass"

\* Lines 272-273: tellg() of a failed stream is -1.
TellSize(io, f) ==
    IF OpenFailed(io) \/ io = "tellg_fail" THEN SIZE_MAX ELSE Len(f)

\* SizeOutcome with '<' for '<=': a file of exactly 12 bytes is let through.
SizeOutcome_Strict(sz) ==
    IF sz = 0 THEN RESULT_FILE_EMPTY
    ELSE IF sz < EXPECTED_DATA_POS_START THEN RESULT_UNSUPPORTED_FILE_SIZE
    ELSE "pass"

\* Lines 275-276.
SizeOutcome(sz) ==
    IF sz = 0 THEN RESULT_FILE_EMPTY
    ELSE IF sz <= EXPECTED_DATA_POS_START THEN RESULT_UNSUPPORTED_FILE_SIZE
    ELSE "pass"

OpenAndSize ==
    /\ pc = "try"
    /\ LET o == OpenOutcome(ioFault)
           sz == TellSize(ioFault, file)
           handle == IF OpenFailed(ioFault) THEN "none" ELSE "open"
       IN  /\ opened' = IF OpenFailed(ioFault) THEN opened ELSE opened + 1
           /\ IF o # "pass"
              THEN /\ result' = o
                   /\ pc' = "done"
                   /\ in' = handle
                   /\ UNCHANGED fileSize
              ELSE /\ fileSize' = sz
                   /\ IF SizeOutcome(sz) # "pass"
                      THEN /\ result' = SizeOutcome(sz)
                           /\ pc' = "done"
                           /\ in' = IF handle = "open" THEN "closed" ELSE handle
                      ELSE /\ pc' = "read"
                           /\ in' = handle
                           /\ UNCHANGED result
    /\ UNCHANGED <<env, calls, rawData, reads, channels, correctSampleRate,
                   bitsPerSample, dataOffset, dataSize, dataEnd, outData,
                   outBefore, outWritten>>

\* ------------------------------------------------------------------ read
\* operator new: an allocation larger than the heap grants throws.
CanAllocate(n, limit) == n <= limit

\* The byte counts in.read can deliver.
Delivered(io, sz) == IF io = "short_read" THEN {0, sz \div 2, sz - 1} ELSE {sz}

\* Lines 278-288: vector<u8> rawData(fileSize) is zero-filled, then read into.
ReadFile ==
    /\ pc = "read"
    /\ IF ~CanAllocate(fileSize, heapLimit)
       THEN /\ Return(RESULT_UNKNOWN_READ_ERROR)
            /\ UNCHANGED rawData
       ELSE /\ \E n \in Delivered(ioFault, fileSize) :
                 rawData' = SubSeq(file, 1, n) \o Zeros(fileSize - n)
            /\ pc' = "parse"
            /\ UNCHANGED <<result, in>>
    /\ UNCHANGED <<env, calls, opened, fileSize, reads, channels, correctSampleRate,
                   bitsPerSample, dataOffset, dataSize, dataEnd, outData,
                   outBefore, outWritten>>

\* ---------------------------------------------------------- header parse
\* rawData.data()[i]: a byte of the buffer, or of what lies behind it.
Mem(raw, g, i) == IF i < Len(raw) THEN raw[i + 1] ELSE g[i + 1]

\* The n bytes memcmp or memcpy is handed at offset off.
BytesAt(raw, g, off, n) == [k \in 1..n |-> Mem(raw, g, off + k - 1)]
Range(off, n) == off..(off + n - 1)

\* memcpy into a u16 or u32 on a little-endian machine.
U16At(raw, g, off) == Mem(raw, g, off) + 256 * Mem(raw, g, off + 1)
U32At(raw, g, off) ==
    Mem(raw, g, off) + 256 * Mem(raw, g, off + 1)
      + 65536 * Mem(raw, g, off + 2) + 16777216 * Mem(raw, g, off + 3)

\* static_cast<u8>
ToU8(x) == x % 256

ContainsSampleRate(sr) == sr \in ALLOWED_SAMPLE_RATES
ContainsChannel(c) == c \in ALLOWED_CHANNELS
ContainsBPS(bps) == bps \in ALLOWED_BPS

\* AllowListOutcome without the bit-depth check.
AllowListOutcome_NoBitsCheck(sr, ch, bps) ==
    IF ~ContainsSampleRate(sr) THEN RESULT_UNSUPPORTED_SAMPLE_RATE
    ELSE IF ~ContainsChannel(ToU8(ch)) THEN RESULT_UNSUPPORTED_CHANNELS
    ELSE "pass"

\* AllowListOutcome with the channel check placed first.
AllowListOutcome_ChannelsFirst(sr, ch, bps) ==
    IF ~ContainsChannel(ToU8(ch)) THEN RESULT_UNSUPPORTED_CHANNELS
    ELSE IF ~ContainsSampleRate(sr) THEN RESULT_UNSUPPORTED_SAMPLE_RATE
    ELSE IF ~ContainsBPS(ToU8(bps)) THEN RESULT_UNSUPPORTED_BITS_PER_SAMPLE
    ELSE "pass"

\* Lines 308-313.
AllowListOutcome(sr, ch, bps) ==
    IF ~ContainsSampleRate(sr) THEN RESULT_UNSUPPORTED_SAMPLE_RATE
    ELSE IF ~ContainsChannel(ToU8(ch)) THEN RESULT_UNSUPPORTED_CHANNELS
    ELSE IF ~ContainsBPS(ToU8(bps)) THEN RESULT_UNSUPPORTED_BITS_PER_SAMPLE
    ELSE "pass"

\* MagicMatches comparing 3 bytes for 4.
MagicMatches_ThreeBytes(raw, g, off, lit) ==
    BytesAt(raw, g, off, 3) = SubSeq(lit, 1, 3)

\* memcmp(rawData.data() + off, lit, 4) == 0
MagicMatches(raw, g, off, lit) == BytesAt(raw, g, off, 4) = lit

\* Lines 290-313: the outcome and the indices read on the way to it.
HeaderOutcome(raw, g) ==
    LET none == [ch |-> 0, sr |-> 0, bps |-> 0]
        magic == Range(0, 4) \cup Range(8, 4) \cup Range(12, 4)
        fields == Range(22, 2) \cup Range(24, 4) \cup Range(34, 2)
    IN  IF ~MagicMatches(raw, g, 0, RIFF)
        THEN [res |-> RESULT_INVALID_RIFF_MAGIC, reads |-> Range(0, 4)] @@ none
        ELSE IF ~MagicMatches(raw, g, 8, WAVE)
        THEN [res |-> RESULT_INVALID_WAVE_MAGIC,
              reads |-> Range(0, 4) \cup Range(8, 4)] @@ none
        ELSE IF ~MagicMatches(raw, g, 12, FMT)
        THEN [res |-> RESULT_INVALID_FMT_CHUNK, reads |-> magic] @@ none
        ELSE IF U16At(raw, g, 20) # 1
        THEN [res |-> RESULT_INVALID_FORMAT_TYPE,
              reads |-> magic \cup Range(20, 2)] @@ none
        ELSE [res |-> AllowListOutcome(U32At(raw, g, 24), U16At(raw, g, 22),
                                       U16At(raw, g, 34)),
              reads |-> magic \cup Range(20, 2) \cup fields,
              ch |-> U16At(raw, g, 22), sr |-> U32At(raw, g, 24),
              bps |-> U16At(raw, g, 34)]

\* A read behind the end of rawData is undefined: it yields the bytes that
\* lie there (ghost), or the process dies.
ParseHeader ==
    /\ pc = "parse"
    /\ LET o == HeaderOutcome(rawData, ghost)
       IN  /\ reads' = reads \cup o.reads
           /\ \/ /\ channels' = o.ch
                 /\ correctSampleRate' = o.sr
                 /\ bitsPerSample' = o.bps
                 /\ IF o.res = "pass"
                    THEN pc' = "scan" /\ UNCHANGED <<result, in>>
                    ELSE Return(o.res)
              \/ /\ \E i \in o.reads : i >= Len(rawData)
                 /\ pc' = "crashed"
                 /\ UNCHANGED <<channels, correctSampleRate, bitsPerSample, result, in>>
    /\ UNCHANGED <<env, calls, opened, fileSize, rawData, dataOffset, dataSize,
                   dataEnd, outData, outBefore, outWritten>>

\* ------------------------------------------------------- data-chunk scan
\* Line 319: the loop condition.
ScanContinues(i, size) == i + 8 < size

\* ScanFrom without the break: the last match wins.
ScanFrom_LastMatch(raw, i) ==
    LET S == { j \in i..Len(raw) :
               ScanContinues(j, Len(raw)) /\ MagicMatches(raw, <<>>, j, DATA) }
    IN  IF S = {} THEN -1 ELSE CHOOSE m \in S : \A j \in S : j <= m

\* Lines 319-327: the first i the loop stops at with a match, -1 if none.
RECURSIVE ScanFrom(_, _)
ScanFrom(raw, i) ==
    IF ~ScanContinues(i, Len(raw)) THEN -1
    ELSE IF MagicMatches(raw, <<>>, i, DATA) THEN i
    ELSE ScanFrom(raw, i + 1)

\* The indices the loop reads: 4 bytes at every position it visits, and the
\* 4 bytes of the size at the match.
ScanReads(raw, m) ==
    IF m >= 0 THEN EXPECTED_DATA_POS_START..(m + 7)
    ELSE UNION { Range(i, 4) :
                 i \in { j \in EXPECTED_DATA_POS_START..Len(raw) :
                         ScanContinues(j, Len(raw)) } }

Min(a, b) == IF a < b THEN a ELSE b

\* DataEnd without the data offset: min(size, dataSize).
DataEnd_NoOffset(size, off, declared) == Min(size, declared)

\* Line 329.
DataEnd(size, off, declared) == Min(size, off + declared)

\* Lines 331-332.
DataChunkMissing(off, size) == off = 0 \/ off >= size

FindDataChunk ==
    /\ pc = "scan"
    /\ LET m == ScanFrom(rawData, EXPECTED_DATA_POS_START)
           off == IF m >= 0 THEN m + 8 ELSE 0
           declared == IF m >= 0 THEN U32At(rawData, ghost, m + 4) ELSE 0
       IN  /\ reads' = reads \cup ScanReads(rawData, m)
           /\ dataOffset' = off
           /\ dataSize' = declared
           /\ dataEnd' = DataEnd(Len(rawData), off, declared)
           /\ IF DataChunkMissing(off, Len(rawData))
              THEN Return(RESULT_MISSING_DATA_CHUNK)
              ELSE pc' = "send" /\ UNCHANGED <<result, in>>
    /\ UNCHANGED <<env, calls, opened, fileSize, rawData, channels,
                   correctSampleRate, bitsPerSample, outData, outBefore, outWritten>>

\* --------------------------------------------------------- send data out
\* Lines 341-350: the PCMData_WAV built from the buffer and the fields.
MakePCMData(raw, off, end, sr, ch, bps) ==
    [ pcmData |-> SubSeq(raw, off + 1, end), sampleRate |-> sr,
      bitsPerSample |-> ToU8(bps), channels |-> ToU8(ch) ]

\* SendDataOut with outData assigned before reserve(dataSize) is tried.
SendDataOut_WriteBeforeReserve ==
    /\ pc = "send"
    /\ reads' = reads \cup dataOffset..(dataEnd - 1)
    /\ outData' = MakePCMData(rawData, dataOffset, dataEnd,
                              correctSampleRate, channels, bitsPerSample)
    /\ IF ~CanAllocate(dataSize, heapLimit)
       THEN /\ Return(RESULT_UNKNOWN_READ_ERROR)
            /\ UNCHANGED outWritten
       ELSE /\ outWritten' = TRUE
            /\ Return(RESULT_SUCCESS)
    /\ UNCHANGED <<env, calls, opened, fileSize, rawData, channels,
                   correctSampleRate, bitsPerSample, dataOffset, dataSize,
                   dataEnd, outBefore>>

\* Lines 341-361: reserve(dataSize) throws when the heap refuses it, and the
\* catch block returns; otherwise the copy, close, the move into outData.
SendDataOut ==
    /\ pc = "send"
    /\ IF ~CanAllocate(dataSize, heapLimit)
       THEN /\ Return(RESULT_UNKNOWN_READ_ERROR)
            /\ UNCHANGED <<reads, outData, outWritten>>
       ELSE /\ reads' = reads \cup dataOffset..(dataEnd - 1)
            /\ outData' = MakePCMData(rawData, dataOffset, dataEnd,
                                      correctSampleRate, channels, bitsPerSample)
            /\ outWritten' = TRUE
            /\ Return(RESULT_SUCCESS)
    /\ UNCHANGED <<env, calls, opened, fileSize, rawData, channels,
                   correctSampleRate, bitsPerSample, dataOffset, dataSize,
                   dataEnd, outBefore>>

Next ==
    \/ PreReadChecks
    \/ OpenAndSize
    \/ ReadFile
    \/ ParseHeader
    \/ FindDataChunk
    \/ SendDataOut

Spec == Init /\ [][Next]_vars

\* ============================================================ the claims
\* The vocabulary of the claims: the file as the WAV layout describes it,
\* read off the bytes of the file, not off the decoder's locals.
Stored16(f, off) == f[off + 1] + 256 * f[off + 2]
Stored32(f, off) ==
    f[off + 1] + 256 * f[off + 2] + 65536 * f[off + 3] + 16777216 * f[off + 4]
Literal(f, off, lit) == Len(f) >= off + 4 /\ SubSeq(f, off + 1, off + 4) = lit

\* A regular, readable .wav file that opens and is read in full.
Readable ==
    /\ kind = "regular" /\ ext = ".wav" /\ canRead
    /\ fsThrow = "none" /\ ioFault = "none"

\* RIFF/WAVE/'fmt ' magic and audioFormat = 1 in a file that holds the whole
\* 36 bytes of header.
ValidMagic(f) ==
    /\ Len(f) >= 36
    /\ Literal(f, 0, <<82, 73, 70, 70>>)
    /\ Literal(f, 8, <<87, 65, 86, 69>>)
    /\ Literal(f, 12, <<102, 109, 116, 32>>)
    /\ Stored16(f, 20) = 1

\* The well-formed minimal 44-byte header of 16-bit stereo at 44100 Hz, the
\* data chunk at offset 36.
MinimalHeader(f) ==
    /\ Len(f) >= 44
    /\ ValidMagic(f)
    /\ Stored32(f, 16) = 16
    /\ Stored16(f, 22) = 2
    /\ Stored32(f, 24) = 44100
    /\ Stored32(f, 28) = 176400
    /\ Stored16(f, 32) = 4
    /\ Stored16(f, 34) = 16
    /\ Literal(f, 36, <<100, 97, 116, 97>>)

\* ... followed by exactly the N payload bytes it declares.
WellFormedMinimal(f) == MinimalHeader(f) /\ Stored32(f, 40) = Len(f) - 44

Stereo16At44100(payload) ==
    [pcmData |-> payload, sampleRate |-> 44100, bitsPerSample |-> 16, channels |-> 2]

\* C1: Convert_WAV never reads rawData at an index >= the file size.
\* Stated as written; the code reads behind the buffer of a 13..35 byte file.
C1_NoReadPastEnd == \A i \in reads : i < Len(rawData)

\* C2 as written: for every N >= 0, a readable well-formed minimal file with
\* N payload bytes decodes to success, those N bytes and {44100, 16, 2}.
C2_MinimalFileDecodes_AnyN ==
    (pc = "done" /\ Readable /\ WellFormedMinimal(file))
      => /\ result = RESULT_SUCCESS
         /\ outData = Stereo16At44100(SubSeq(file, 45, Len(file)))

\* C2 amended: the same for every N >= 1; with N = 0 the 'data' tag at
\* offset 36 is never visited (36 + 8 < 44 fails).
C2_MinimalFileDecodes ==
    (pc = "done" /\ Readable /\ WellFormedMinimal(file) /\ Len(file) > 44)
      => /\ result = RESULT_SUCCESS
         /\ outData = Stereo16At44100(SubSeq(file, 45, Len(file)))

C2_Witness ==
    /\ pc = "done" /\ Readable /\ WellFormedMinimal(file)
    /\ Len(file) = 44 + MaxPayload
    /\ file[45] = 100
    /\ result = RESULT_SUCCESS
    /\ Len(outData.pcmData) = MaxPayload

\* The allow-lists as the layout table states them, on the stored fields.
ValidHeader(f) ==
    /\ ValidMagic(f)
    /\ Stored32(f, 24) \in {44100, 48000, 96000, 192000}
    /\ Stored16(f, 22) \in {1, 2}
    /\ Stored16(f, 34) \in {16, 24, 32}

\* The positions of the file where the scan can match 'data'.
DataTags(f) ==
    { i \in 12..Len(f) : i + 8 < Len(f) /\ Literal(f, i, <<100, 97, 116, 97>>) }
FirstDataTag(f) == CHOOSE i \in DataTags(f) : \A j \in DataTags(f) : i <= j

\* C3: with a valid header, a declared data size larger than the bytes that
\* remain still gives success, the payload being exactly the remaining bytes.
\* Stated as written; reserve(dataSize) asks the heap for the declared size.
C3_OversizedDeclaredSucceeds ==
    (/\ pc = "done" /\ Readable /\ ValidHeader(file) /\ DataTags(file) # {}
     /\ Stored32(file, FirstDataTag(file) + 4) > Len(file) - (FirstDataTag(file) + 8))
      => /\ result = RESULT_SUCCESS
         /\ outData.pcmData = SubSeq(file, FirstDataTag(file) + 9, Len(file))

\* C4: outData is assigned if and only if the call returns RESULT_SUCCESS;
\* in every other state of a call it holds the value it had before the call.
C4_OutDataIffSuccess ==
    /\ outWritten <=> (pc = "done" /\ result = RESULT_SUCCESS)
    /\ ~(pc = "done" /\ result = RESULT_SUCCESS) => outData = outBefore

\* A call that fails at its last step, after the payload was located.
C4_Witness ==
    /\ pc = "done" /\ result = RESULT_UNKNOWN_READ_ERROR
    /\ dataOffset > 0 /\ dataSize > heapLimit
    /\ outData = outBefore /\ ~outWritten

\* C5: an existing path that is not a regular file gives
\* RESULT_FILE_NOT_FOUND, and RESULT_INVALID_EXTENSION is given only for a
\* regular file whose extension is not '.wav'.  Stated as written; the code
\* answers RESULT_INVALID_EXTENSION for a directory.
C5_NonRegularIsNotFound ==
    (pc = "done" /\ fsThrow = "none")
      => /\ kind = "directory" => result = RESULT_FILE_NOT_FOUND
         /\ result = RESULT_INVALID_EXTENSION => (kind = "regular" /\ ext # ".wav")

\* C6: no exception propagates out of Convert_WAV.  Stated as written; the
\* filesystem queries of lines 231-239 run outside the try block.
C6_NoExceptionEscapes == pc # "threw"

\* C7: success only if the 16-bit fields at offsets 22 and 34 are in {1,2}
\* and {16,24,32}.  Stated as written; the code tests their low bytes.
C7_SuccessOnlyForListed16BitFields ==
    (pc = "done" /\ Readable /\ Len(file) >= 36 /\ result = RESULT_SUCCESS)
      => /\ Stored16(file, 22) \in {1, 2}
         /\ Stored16(file, 34) \in {16, 24, 32}

\* The file has bytes [0,4) and they differ from 'RIFF'.
BadRiff(f) == Len(f) >= 4 /\ SubSeq(f, 1, 4) # <<82, 73, 70, 70>>

\* C8 as written: a readable file whose bytes [0,4) differ from 'RIFF' gives
\* RESULT_INVALID_RIFF_MAGIC whatever its length.
C8_BadRiff_AnyLength ==
    (pc = "done" /\ Readable /\ BadRiff(file))
      => result = RESULT_INVALID_RIFF_MAGIC

\* C8 amended: the same for files of 13 bytes or more; shorter files are
\* answered by the size checks before any byte is compared.
C8_BadRiff ==
    (pc = "done" /\ Readable /\ Len(file) >= 13 /\ BadRiff(file))
      => result = RESULT_INVALID_RIFF_MAGIC

C8_Witness ==
    /\ pc = "done" /\ Readable /\ Len(file) = 13
    /\ BadRiff(file)
    /\ result = RESULT_INVALID_RIFF_MAGIC

\* C9: a readable file of 0 bytes gives RESULT_FILE_EMPTY and one of 1..12
\* bytes RESULT_UNSUPPORTED_FILE_SIZE, no byte of it having been loaded or
\* compared; a file of 13 bytes or more never gives either outcome.
C9_ShortFiles ==
    /\ (pc = "done" /\ Readable /\ Len(file) = 0)
         => (result = RESULT_FILE_EMPTY /\ rawData = <<>> /\ reads = {})
    /\ (pc = "done" /\ Readable /\ Len(file) \in 1..12)
         => (result = RESULT_UNSUPPORTED_FILE_SIZE /\ rawData = <<>> /\ reads = {})
    /\ Len(file) >= 13
         => result \notin {RESULT_FILE_EMPTY, RESULT_UNSUPPORTED_FILE_SIZE}

C9_Witness ==
    /\ pc = "done" /\ Readable /\ Len(file) = 12
    /\ SubSeq(file, 1, 4) = <<82, 73, 70, 70>>
    /\ result = RESULT_UNSUPPORTED_FILE_SIZE

\* The channel count and bit depth the allow-list checks look at: the stored
\* field truncated to 8 bits.
StoredLow8(f, off) == f[off + 1]
RateListed(f) == Stored32(f, 24) \in {44100, 48000, 96000, 192000}
ChannelsListed(f) == StoredLow8(f, 22) \in {1, 2}
BitsListed(f) == StoredLow8(f, 34) \in {16, 24, 32}

C11_DecodedAudioInvariant ==
    (outWritten \/ (pc = "done" /\ result = RESULT_SUCCESS))
      => /\ outData.sampleRate \in {44100, 48000, 96000, 192000}
         /\ outData.channels \in {1, 2}
         /\ outData.bitsPerSample \in {16, 24, 32}
         /\ dataOffset <= Len(file)
         /\ Len(outData.pcmData) <= Len(file) - dataOffset
         /\ (Readable /\ DataTags(file) # {})
              => Len(outData.pcmData) <= Len(file) - (FirstDataTag(file) + 8)

\* A success whose declared size (1 GiB) is far more than the file holds.
C11_Witness ==
    /\ pc = "done" /\ result = RESULT_SUCCESS /\ outWritten /\ Readable
    /\ dataSize = 1073741824
    /\ Len(outData.pcmData) = Len(file) - dataOffset
    /\ Len(outData.pcmData) > 0

\* A file that passes the magic, format and allow-list checks of the code.
PassesHeaderChecks(f) ==
    ValidMagic(f) /\ RateListed(f) /\ ChannelsListed(f) /\ BitsListed(f)

\* The bytes the first data tag of f declares and delimits.
ClampedPayload(f) ==
    LET off == FirstDataTag(f) + 8
        end == off + Stored32(f, FirstDataTag(f) + 4)
    IN  SubSeq(f, off + 1, IF Len(f) < end THEN Len(f) ELSE end)

\* C12: for a file that passes the header and allow-list checks, the data
\* chunk is the first i >= 12 with i + 8 < file size that holds 'data': the
\* payload starts at i + 8 and the declared size is the 4 bytes at i + 4,
\* wherever the match lies; if there is no such i the result is
\* RESULT_MISSING_DATA_CHUNK.
C12_FirstMatchScan ==
    (pc \in {"send", "done"} /\ Readable /\ PassesHeaderChecks(file))
      => IF DataTags(file) # {}
         THEN /\ dataOffset = FirstDataTag(file) + 8
              /\ dataSize = Stored32(file, FirstDataTag(file) + 4)
              /\ result # RESULT_MISSING_DATA_CHUNK
              /\ result = RESULT_SUCCESS => outData.pcmData = ClampedPayload(file)
         ELSE pc = "done" /\ result = RESULT_MISSING_DATA_CHUNK

\* The literal 'data' in the ByteRate field of the fmt chunk (offset 28) is
\* taken for the data chunk although a data chunk follows the header.
C12_Witness ==
    /\ pc = "done" /\ Readable /\ PassesHeaderChecks(file)
    /\ DataTags(file) # {}
    /\ FirstDataTag(file) = 28
    /\ \E i \in DataTags(file) : i >= 36
    /\ result = RESULT_SUCCESS
    /\ dataOffset = 36
    /\ outData.pcmData = SubSeq(file, 37, Len(file))

\* A regular .wav file with a read permission, whatever the I/O does.
Admitted == kind = "regular" /\ ext = ".wav" /\ canRead /\ fsThrow = "none"

\* C13: an open that fails with EBUSY or ETXTBSY gives RESULT_FILE_LOCKED;
\* an open that fails otherwise (errno 0 included), a failed tellg, and a
\* read that delivers fewer bytes than the file size give
\* RESULT_UNKNOWN_READ_ERROR.  Stated as written; the code never looks at
\* what in.read delivered.
C13_IoFailureIsUnknownReadError ==
    (pc = "done" /\ Admitted)
      => /\ ioFault \in {"open_EBUSY", "open_ETXTBSY"}
              => result = RESULT_FILE_LOCKED
         /\ ioFault \in {"open_EIO", "open_errno0", "tellg_fail"}
              => result = RESULT_UNKNOWN_READ_ERROR
         /\ (ioFault = "short_read" /\ Len(file) > 12)
              => result = RESULT_UNKNOWN_READ_ERROR

\* C14: a call that has returned (with success, with a validation failure
\* or through the catch block) holds no open handle, a call that threw never
\* opened one, and a call opens at most one handle.
C14_HandleReleasedOnReturn ==
    /\ pc = "done" => in \in {"none", "closed"}
    /\ pc = "threw" => in = "none"
    /\ in = "open" => pc \in {"read", "parse", "scan", "send", "crashed"}
    /\ opened <= 1
    /\ in # "none" => opened = 1

\* The catch path: reserve throws with the file open, the call returns.
C14_Witness ==
    /\ pc = "done" /\ result = RESULT_UNKNOWN_READ_ERROR
    /\ dataSize > heapLimit /\ opened = 1 /\ in = "closed"
====
